---- MODULE Spec2Model ----
(***************************************************************************)
(* A model of jktr/go-notify (src/notify.go): the Notifier's signal        *)
(* dispatcher (New, receiveSignals, Close), the callbacks it spawns, and   *)
(* the request/response facade (Send, Dismiss).                            *)
(*                                                                         *)
(* The bus connection (godbus) is the environment: it accepts or rejects   *)
(* AddMatchSignal / RemoveMatchSignal, pushes signal frames into the       *)
(* registered channel, and answers method calls.                           *)
(***************************************************************************)
EXTENDS Integers, Sequences, FiniteSets, TLC

\* ------------------------------------------------------------------ bounds
\* number of signal frames the bus emits in one behaviour
MaxFrames == 2
\* number of times the caller invokes Close on the handle
MaxClose == 2
\* number of bus method calls the facade operations issue
MaxCalls == 2

\* --------------------------------------------------------- wire constants
channelBufferSize == 10
signalNotificationClosed == "org.freedesktop.Notifications.NotificationClosed"
signalActionInvoked == "org.freedesktop.Notifications.ActionInvoked"
\* a signal of the same interface that the dispatcher does not understand
signalOther == "org.freedesktop.Notifications.ActivationToken"

VARIABLES
    handle,          \* TRUE once New returned a Notifier (n, nil)
    newErr,          \* TRUE when the last New returned (nil, err)
    onClosed,        \* n.onClosed != nil
    onAction,        \* n.onAction != nil
    matchRules,      \* match rules this connection holds on the bus
    signalRegistered,\* n.signal is registered with conn (conn.Signal)
    signal,          \* n.signal: the buffered channel of frames
    emitted,         \* number of frames the bus has pushed so far
    shutdownCalled,  \* n.shutdown() (the CancelFunc of n.ctx) was called
    connDone,        \* conn.Context() is done
    loopPc,          \* position of the receiveSignals goroutine
    cur,             \* the frame receiveSignals holds in `signal`
    pulled,          \* the frames received from n.signal, in order
    invocations,     \* callback goroutines spawned, in spawn order
    closePc,         \* position of the caller inside Close
    closeCalls,      \* one record per Close call: conn calls made, result
    queuedAtClose,   \* seq numbers still in n.signal when a Close returned
    callLog,         \* bus methods called through obj.Call, in order
    last             \* the last facade operation: input, bus call, result

vars == <<handle, newErr, onClosed, onAction, matchRules,
          signalRegistered, signal, emitted, shutdownCalled, connDone,
          loopPc, cur, pulled, invocations, closePc, closeCalls,
          queuedAtClose, callLog, last>>

dispVars == <<handle, newErr, onClosed, onAction, matchRules,
              signalRegistered, signal, emitted, shutdownCalled, connDone,
              loopPc, cur, pulled, invocations, closePc, closeCalls,
              queuedAtClose>>

facadeVars == <<callLog, last>>

\* ------------------------------------------------------------ dbus values
\* an element of dbus.Signal.Body: interface{} holding a uint32 or a string
U32(n) == [t |-> "uint32", n |-> n, s |-> ""]
Str(s) == [t |-> "string", n |-> 0, s |-> s]

\* the (Name, Body) pairs the bus may emit on the matched path/interface
FrameShapes ==
    { [Name |-> signalNotificationClosed, Body |-> <<U32(42), U32(1)>>],
      [Name |-> signalNotificationClosed, Body |-> <<U32(42), U32(99)>>],
      [Name |-> signalNotificationClosed, Body |-> <<U32(42)>>],
      [Name |-> signalActionInvoked,      Body |-> <<U32(7), Str("cancel")>>],
      [Name |-> signalActionInvoked,      Body |-> <<U32(7), U32(1)>>],
      [Name |-> signalOther,              Body |-> <<>>] }

NoFrame == [seq |-> 0, Name |-> "", Body |-> <<>>]

\* ------------------------------------------------------------ CloseReason
Expired == 1
DismissedByUser == 2
DismissedByCall == 3
Unknown == 4

\* variant: reason codes outside the known range are folded into Unknown
CloseReasonFolded(x) == IF x \in 1..4 THEN x ELSE 4

\* CloseReason(x): Go conversion uint32 -> CloseReason (underlying uint32);
\* no range check, the value is kept whatever it is
CloseReason(x) == x

\* variant: a reason outside the known range is rendered as Unknown
CloseReasonStringFolded(r) ==
    CASE r = Expired -> "Expired"
      [] r = DismissedByUser -> "DismissedByUser"
      [] r = DismissedByCall -> "ClosedByCall"
      [] OTHER -> "Unknown"

\* func (r CloseReason) String() string: the switch with its default
CloseReasonString(r) ==
    CASE r = Expired -> "Expired"
      [] r = DismissedByUser -> "DismissedByUser"
      [] r = DismissedByCall -> "ClosedByCall"
      [] r = Unknown -> "Unknown"
      [] OTHER -> "Other"

\* ID(x): Go conversion uint32 -> ID (underlying uint32)
ID(x) == x

\* a panic in the receiveSignals goroutine is not recovered anywhere: the Go
\* runtime terminates the whole process
Alive == loopPc # "panicked"

\* n.ctx = context.WithCancel(conn.Context()): done when shutdown was called
\* or when the parent context is done
CtxDone == shutdownCalled \/ connDone

\* -------------------------------------------------------------------- New
\* variant: the queue is registered before the filter is requested, and
\* stays registered when the request is rejected
NewSignalFirst(withClosed, withAction, accepted) ==
    /\ Alive
    /\ ~handle
    /\ accepted => ~connDone
    /\ signalRegistered' = TRUE
    /\ IF accepted
         THEN /\ matchRules' = matchRules + 1
              /\ loopPc' = "select"
              /\ handle' = TRUE
              /\ newErr' = FALSE
              /\ onClosed' = withClosed
              /\ onAction' = withAction
         ELSE /\ newErr' = TRUE
              /\ UNCHANGED <<matchRules, loopPc, handle, onClosed, onAction>>
    /\ UNCHANGED <<signal, emitted, shutdownCalled, connDone, cur, pulled,
                   invocations, closePc, closeCalls, queuedAtClose>>
    /\ UNCHANGED facadeVars

\* variant: the loop is started only when a callback was registered
NewLoopIfCallbacks(withClosed, withAction, accepted) ==
    /\ Alive
    /\ ~handle
    /\ accepted => ~connDone
    /\ IF accepted
         THEN /\ matchRules' = matchRules + 1
              /\ signalRegistered' = TRUE
              /\ loopPc' = IF withClosed \/ withAction THEN "select"
                                                       ELSE "none"
              /\ handle' = TRUE
              /\ newErr' = FALSE
              /\ onClosed' = withClosed
              /\ onAction' = withAction
         ELSE /\ newErr' = TRUE
              /\ UNCHANGED <<matchRules, signalRegistered, loopPc, handle,
                             onClosed, onAction>>
    /\ UNCHANGED <<signal, emitted, shutdownCalled, connDone, cur, pulled,
                   invocations, closePc, closeCalls, queuedAtClose>>
    /\ UNCHANGED facadeVars

\* New(conn, opts...): apply the options, AddMatchSignal, conn.Signal,
\* go n.receiveSignals().  withClosed/withAction: the options passed;
\* accepted: whether the bus accepts the match rule.
New(withClosed, withAction, accepted) ==
    /\ Alive
    /\ ~handle
    /\ accepted => ~connDone
    /\ IF accepted
         THEN /\ matchRules' = matchRules + 1
              /\ signalRegistered' = TRUE
              /\ loopPc' = "select"
              /\ handle' = TRUE
              /\ newErr' = FALSE
              /\ onClosed' = withClosed
              /\ onAction' = withAction
         ELSE /\ newErr' = TRUE
              /\ UNCHANGED <<matchRules, signalRegistered, loopPc, handle,
                             onClosed, onAction>>
    /\ UNCHANGED <<signal, emitted, shutdownCalled, connDone, cur, pulled,
                   invocations, closePc, closeCalls, queuedAtClose>>
    /\ UNCHANGED facadeVars

\* ---------------------------------------------------------- bus delivery
\* The connection pushes a matching signal into every registered channel.
\* Frames are numbered in emission order (seq) to tell them apart.
Deliver(shape) ==
    /\ Alive
    /\ signalRegistered
    /\ matchRules > 0
    /\ ~connDone
    /\ emitted < MaxFrames
    /\ Len(signal) < channelBufferSize
    /\ emitted' = emitted + 1
    /\ signal' = Append(signal, [seq |-> emitted + 1, Name |-> shape.Name,
                                  Body |-> shape.Body])
    /\ UNCHANGED <<handle, newErr, onClosed, onAction, matchRules,
                   signalRegistered, shutdownCalled, connDone, loopPc, cur,
                   pulled, invocations, closePc, closeCalls, queuedAtClose>>
    /\ UNCHANGED facadeVars

\* the connection is lost: conn.Context() becomes done
ConnLost ==
    /\ Alive
    /\ ~connDone
    /\ connDone' = TRUE
    /\ UNCHANGED <<handle, newErr, onClosed, onAction, matchRules,
                   signalRegistered, signal, emitted, shutdownCalled, loopPc,
                   cur, pulled, invocations, closePc, closeCalls,
                   queuedAtClose>>
    /\ UNCHANGED facadeVars

\* --------------------------------------------------------- receiveSignals
\* signal.Body[i].(uint32) / .(string): index i (0-based in Go, i+1 here)
\* must exist and hold the asserted type, otherwise the expression panics
HasType(body, i, t) == i <= Len(body) /\ body[i].t = t

\* the arguments of `go n.onClosed(...)` / `go n.onAction(...)` are evaluated
\* by the receiveSignals goroutine itself, before the new goroutine starts
ClosedArgsOk(body) == HasType(body, 1, "uint32") /\ HasType(body, 2, "uint32")
ActionArgsOk(body) == HasType(body, 1, "uint32") /\ HasType(body, 2, "string")

NoSpawn == [panic |-> FALSE, spawn |-> <<>>]
Panic == [panic |-> TRUE, spawn |-> <<>>]
Spawn(f, cb, reason, actionName) ==
    [panic |-> FALSE,
     spawn |-> << [seq |-> f.seq, cb |-> cb, id |-> ID(f.Body[1].n),
                   reason |-> reason, actionName |-> actionName,
                   st |-> "running"] >>]

\* the ids this process holds from its own Send: what the last completed
\* Send returned with a nil error
SentIds ==
    IF last.op = "Send" /\ ~last.pending /\ last.err = "nil"
      THEN {last.id} ELSE {}

\* variant: frames about notifications this process did not send are dropped
HandleSignalOwnIds(f, withClosed, withAction) ==
    CASE Len(f.Body) > 0 /\ f.Body[1].n \notin SentIds -> NoSpawn
      [] f.Name = signalNotificationClosed ->
            IF withClosed
              THEN IF ClosedArgsOk(f.Body)
                     THEN Spawn(f, "onClosed", CloseReason(f.Body[2].n), "")
                     ELSE Panic
              ELSE NoSpawn
      [] f.Name = signalActionInvoked ->
            IF withAction
              THEN IF ActionArgsOk(f.Body)
                     THEN Spawn(f, "onAction", 0, f.Body[2].s)
                     ELSE Panic
              ELSE NoSpawn
      [] OTHER -> NoSpawn

\* variant: the ActionInvoked case invokes the on-closed handler
HandleSignalWrongCase(f, withClosed, withAction) ==
    CASE f.Name = signalNotificationClosed ->
            IF withClosed
              THEN IF ClosedArgsOk(f.Body)
                     THEN Spawn(f, "onClosed", CloseReason(f.Body[2].n), "")
                     ELSE Panic
              ELSE NoSpawn
      [] f.Name = signalActionInvoked ->
            IF withAction
              THEN IF ActionArgsOk(f.Body)
                     THEN Spawn(f, "onClosed", 0, f.Body[2].s)
                     ELSE Panic
              ELSE NoSpawn
      [] OTHER -> NoSpawn

\* variant: the body is decoded before the handler is tested for nil
HandleSignalDecodeFirst(f, withClosed, withAction) ==
    CASE f.Name = signalNotificationClosed ->
            IF ~ClosedArgsOk(f.Body) THEN Panic
            ELSE IF withClosed
              THEN Spawn(f, "onClosed", CloseReason(f.Body[2].n), "")
              ELSE NoSpawn
      [] f.Name = signalActionInvoked ->
            IF ~ActionArgsOk(f.Body) THEN Panic
            ELSE IF withAction
              THEN Spawn(f, "onAction", 0, f.Body[2].s)
              ELSE NoSpawn
      [] OTHER -> NoSpawn

\* variant: any name other than ActionInvoked is taken for a closed signal
HandleSignalDefaultDecodes(f, withClosed, withAction) ==
    CASE f.Name = signalActionInvoked ->
            IF withAction
              THEN IF ActionArgsOk(f.Body)
                     THEN Spawn(f, "onAction", 0, f.Body[2].s)
                     ELSE Panic
              ELSE NoSpawn
      [] OTHER ->
            IF withClosed
              THEN IF ClosedArgsOk(f.Body)
                     THEN Spawn(f, "onClosed", CloseReason(f.Body[2].n), "")
                     ELSE Panic
              ELSE NoSpawn

\* variant: both cases test the on-action slot
HandleSignalSharedCheck(f, withClosed, withAction) ==
    CASE f.Name = signalNotificationClosed ->
            IF withAction
              THEN IF ClosedArgsOk(f.Body)
                     THEN Spawn(f, "onClosed", CloseReason(f.Body[2].n), "")
                     ELSE Panic
              ELSE NoSpawn
      [] f.Name = signalActionInvoked ->
            IF withAction
              THEN IF ActionArgsOk(f.Body)
                     THEN Spawn(f, "onAction", 0, f.Body[2].s)
                     ELSE Panic
              ELSE NoSpawn
      [] OTHER -> NoSpawn

\* the body of `case signal := <-n.signal`: switch signal.Name
HandleSignal(f, withClosed, withAction) ==
    CASE f.Name = signalNotificationClosed ->
            IF withClosed
              THEN IF ClosedArgsOk(f.Body)
                     THEN Spawn(f, "onClosed", CloseReason(f.Body[2].n), "")
                     ELSE Panic
              ELSE NoSpawn
      [] f.Name = signalActionInvoked ->
            IF withAction
              THEN IF ActionArgsOk(f.Body)
                     THEN Spawn(f, "onAction", 0, f.Body[2].s)
                     ELSE Panic
              ELSE NoSpawn
      [] OTHER -> NoSpawn

\* variant: the callback is called without `go`, on the loop's goroutine
AfterDispatchInline(res) ==
    IF res.panic THEN "panicked"
    ELSE IF res.spawn # <<>> THEN "callback" ELSE "select"

\* where the receiveSignals goroutine continues after the switch: the
\* callback was started with `go`, so the loop goes straight back to select
AfterDispatch(res) == IF res.panic THEN "panicked" ELSE "select"

\* variant: the loop watches the connection's context, not the notifier's
ReceiveDoneConnOnly ==
    /\ loopPc = "select"
    /\ connDone
    /\ loopPc' = "returned"
    /\ UNCHANGED <<handle, newErr, onClosed, onAction, matchRules,
                   signalRegistered, signal, emitted, shutdownCalled,
                   connDone, cur, pulled, invocations, closePc, closeCalls,
                   queuedAtClose>>
    /\ UNCHANGED facadeVars

\* select { case <-n.ctx.Done(): return ... }
ReceiveDone ==
    /\ loopPc = "select"
    /\ CtxDone
    /\ loopPc' = "returned"
    /\ UNCHANGED <<handle, newErr, onClosed, onAction, matchRules,
                   signalRegistered, signal, emitted, shutdownCalled,
                   connDone, cur, pulled, invocations, closePc, closeCalls,
                   queuedAtClose>>
    /\ UNCHANGED facadeVars

\* variant: the loop receives only while no facade call is in flight
ReceiveSignalAfterCall ==
    /\ loopPc = "select"
    /\ signal # <<>>
    /\ ~last.pending
    /\ cur' = Head(signal)
    /\ signal' = Tail(signal)
    /\ pulled' = Append(pulled, Head(signal))
    /\ loopPc' = "switch"
    /\ UNCHANGED <<handle, newErr, onClosed, onAction, matchRules,
                   signalRegistered, emitted, shutdownCalled, connDone,
                   invocations, closePc, closeCalls, queuedAtClose>>
    /\ UNCHANGED facadeVars

\* variant: the receive takes the newest queued frame instead of the oldest
ReceiveSignalNewest ==
    /\ loopPc = "select"
    /\ signal # <<>>
    /\ cur' = signal[Len(signal)]
    /\ signal' = SubSeq(signal, 1, Len(signal) - 1)
    /\ pulled' = Append(pulled, signal[Len(signal)])
    /\ loopPc' = "switch"
    /\ UNCHANGED <<handle, newErr, onClosed, onAction, matchRules,
                   signalRegistered, emitted, shutdownCalled, connDone,
                   invocations, closePc, closeCalls, queuedAtClose>>
    /\ UNCHANGED facadeVars

\* select { ... case signal := <-n.signal: ... }.  When both cases are ready
\* Go's select chooses one of them at random: both actions are enabled.
ReceiveSignal ==
    /\ loopPc = "select"
    /\ signal # <<>>
    /\ cur' = Head(signal)
    /\ signal' = Tail(signal)
    /\ pulled' = Append(pulled, Head(signal))
    /\ loopPc' = "switch"
    /\ UNCHANGED <<handle, newErr, onClosed, onAction, matchRules,
                   signalRegistered, emitted, shutdownCalled, connDone,
                   invocations, closePc, closeCalls, queuedAtClose>>
    /\ UNCHANGED facadeVars

\* switch signal.Name { ... go n.onClosed(...) / go n.onAction(...) }
DispatchSignal ==
    /\ loopPc = "switch"
    /\ LET res == HandleSignal(cur, onClosed, onAction) IN
         /\ invocations' = invocations \o res.spawn
         /\ loopPc' = AfterDispatch(res)
    /\ UNCHANGED <<handle, newErr, onClosed, onAction, matchRules,
                   signalRegistered, signal, emitted, shutdownCalled,
                   connDone, cur, pulled, closePc, closeCalls, queuedAtClose>>
    /\ UNCHANGED facadeVars

\* -------------------------------------------------------------- callbacks
\* a user callback, running on its own goroutine, returns
CallbackReturn(i) ==
    /\ Alive
    /\ i \in 1..Len(invocations)
    /\ invocations[i].st = "running"
    /\ invocations' = [invocations EXCEPT ![i].st = "done"]
    /\ UNCHANGED <<handle, newErr, onClosed, onAction, matchRules,
                   signalRegistered, signal, emitted, shutdownCalled,
                   connDone, loopPc, cur, pulled, closePc, closeCalls,
                   queuedAtClose>>
    /\ UNCHANGED facadeVars

\* a user callback blocks forever (it never returns)
CallbackBlock(i) ==
    /\ Alive
    /\ i \in 1..Len(invocations)
    /\ invocations[i].st = "running"
    /\ invocations' = [invocations EXCEPT ![i].st = "blocked"]
    /\ UNCHANGED <<handle, newErr, onClosed, onAction, matchRules,
                   signalRegistered, signal, emitted, shutdownCalled,
                   connDone, loopPc, cur, pulled, closePc, closeCalls,
                   queuedAtClose>>
    /\ UNCHANGED facadeVars

\* an on-closed callback renders the reason it was given, as the example's
\* handler does with log.Printf("... Reason: %s", id, reason), and returns
CallbackRender(i) ==
    /\ Alive
    /\ i \in 1..Len(invocations)
    /\ invocations[i].st = "running"
    /\ invocations[i].cb = "onClosed"
    /\ invocations' = [invocations EXCEPT ![i] =
          [seq |-> @.seq, cb |-> @.cb, id |-> @.id, reason |-> @.reason,
           actionName |-> @.actionName, st |-> "rendered",
           text |-> CloseReasonString(@.reason)]]
    /\ UNCHANGED <<handle, newErr, onClosed, onAction, matchRules,
                   signalRegistered, signal, emitted, shutdownCalled,
                   connDone, loopPc, cur, pulled, closePc, closeCalls,
                   queuedAtClose>>
    /\ UNCHANGED facadeVars

\* ------------------------------------------------------------------ Close
SeqsOf(q) == { q[i].seq : i \in 1..Len(q) }

\* variant: Close forgets to cancel the context
CloseWithoutShutdown ==
    /\ Alive
    /\ handle
    /\ closePc = "idle"
    /\ Len(closeCalls) < MaxClose
    /\ closeCalls' = Append(closeCalls, [ops |-> <<>>, busErr |-> FALSE,
                                         ret |-> "pending"])
    /\ closePc' = "RemoveSignal"
    /\ UNCHANGED <<handle, newErr, onClosed, onAction, matchRules,
                   signalRegistered, signal, emitted, shutdownCalled,
                   connDone, loopPc, cur, pulled, invocations, queuedAtClose>>
    /\ UNCHANGED facadeVars

\* Close, first statement: n.shutdown()
CloseShutdown ==
    /\ Alive
    /\ handle
    /\ closePc = "idle"
    /\ Len(closeCalls) < MaxClose
    /\ shutdownCalled' = TRUE
    /\ closeCalls' = Append(closeCalls, [ops |-> <<>>, busErr |-> FALSE,
                                         ret |-> "pending"])
    /\ closePc' = "RemoveSignal"
    /\ UNCHANGED <<handle, newErr, onClosed, onAction, matchRules,
                   signalRegistered, signal, emitted, connDone, loopPc, cur,
                   pulled, invocations, queuedAtClose>>
    /\ UNCHANGED facadeVars

\* variant: Close waits until every started callback has returned
CloseRemoveSignalWaits ==
    /\ Alive
    /\ closePc = "RemoveSignal"
    /\ \A i \in 1..Len(invocations) : invocations[i].st = "done"
    /\ signalRegistered' = FALSE
    /\ closeCalls' = [closeCalls EXCEPT ![Len(closeCalls)].ops =
                                              Append(@, "RemoveSignal")]
    /\ closePc' = "RemoveMatchSignal"
    /\ UNCHANGED <<handle, newErr, onClosed, onAction, matchRules,
                   signal, emitted, shutdownCalled, connDone, loopPc, cur,
                   pulled, invocations, queuedAtClose>>
    /\ UNCHANGED facadeVars

\* Close, second statement: n.conn.RemoveSignal(n.signal)
CloseRemoveSignal ==
    /\ Alive
    /\ closePc = "RemoveSignal"
    /\ signalRegistered' = FALSE
    /\ closeCalls' = [closeCalls EXCEPT ![Len(closeCalls)].ops =
                                              Append(@, "RemoveSignal")]
    /\ closePc' = "RemoveMatchSignal"
    /\ UNCHANGED <<handle, newErr, onClosed, onAction, matchRules,
                   signal, emitted, shutdownCalled, connDone, loopPc, cur,
                   pulled, invocations, queuedAtClose>>
    /\ UNCHANGED facadeVars

\* Close, last statement: return n.conn.RemoveMatchSignal(...).  The bus
\* removes the rule (accepted) or rejects the request; it cannot remove a
\* rule the connection does not hold.
CloseRemoveMatchSignal(accepted) ==
    /\ Alive
    /\ closePc = "RemoveMatchSignal"
    /\ accepted => (matchRules > 0 /\ ~connDone)
    /\ matchRules' = IF accepted THEN matchRules - 1 ELSE matchRules
    /\ closeCalls' = [closeCalls EXCEPT
                         ![Len(closeCalls)].ops = Append(@, "RemoveMatchSignal"),
                         ![Len(closeCalls)].busErr = ~accepted,
                         ![Len(closeCalls)].ret =
                               IF accepted THEN "nil" ELSE "err"]
    /\ queuedAtClose' = queuedAtClose \cup SeqsOf(signal)
    /\ closePc' = "idle"
    /\ UNCHANGED <<handle, newErr, onClosed, onAction,
                   signalRegistered, signal, emitted, shutdownCalled,
                   connDone, loopPc, cur, pulled, invocations>>
    /\ UNCHANGED facadeVars

\* ----------------------------------------------------------------- facade
callNotify == "org.freedesktop.Notifications.Notify"
callCloseNotification == "org.freedesktop.Notifications.CloseNotification"

\* Expiry (int32): Server = iota - 1, Timeout, Never
Server == -1
Timeout == 0
Never == 1

\* time.Duration is an int64 count of nanoseconds.  A non-negative duration
\* d is written in limbs:
\*   d = ((hi * 2^32 + mid * 2^16 + lo) * 10^6 + ns) nanoseconds,
\* with mid, lo in 0..65535 and ns in 0..999999.
Dur(hi, mid, lo, ns) == [hi |-> hi, mid |-> mid, lo |-> lo, ns |-> ns]

\* Duration.Milliseconds(): int64(d) / 1e6, the sub-millisecond part dropped
Milliseconds(d) == [hi |-> d.hi, mid |-> d.mid, lo |-> d.lo]

\* int32(x) of an int64 x: the low 32 bits, read as two's complement
Int32(x) == IF x.mid >= 32768 THEN (x.mid - 65536) * 65536 + x.lo
                              ELSE x.mid * 65536 + x.lo

\* the durations tried: 0, 1.5ms, 5000ms (the example's 5s), 2^31 ms,
\* 2^32 - 1 ms
Durations ==
    { Dur(0, 0, 0, 0), Dur(0, 0, 1, 500000), Dur(0, 0, 5000, 0),
      Dur(0, 32768, 0, 0), Dur(0, 65535, 65535, 0) }

\* Notification.Actions: a slice, nil or a list of NotificationAction
NilActions == [nil |-> TRUE, elems |-> <<>>]
ActionList(l) == [nil |-> FALSE, elems |-> l]
Act(name, summary) == [Name |-> name, Summary |-> summary]

ActionLists ==
    { NilActions, ActionList(<<>>),
      ActionList(<<Act("confirm", "Confirm.")>>),
      ActionList(<<Act("confirm", "Confirm."), Act("cancel", "Cancel.")>>) }

\* the requests tried; AppName, AppIcon, Summary, Body, Hints and ReplacesID
\* are handed to the call as they are and are left out of the record
Notes == [Actions : ActionLists, Expire : {Server, Timeout, Never},
          Timeout : Durations]

\* for _, act := range note.Actions { append Name; append Summary }
RECURSIVE AppendActions(_, _)
AppendActions(actions, elems) ==
    IF elems = <<>> THEN actions
    ELSE AppendActions(actions \o <<Head(elems).Name, Head(elems).Summary>>,
                       Tail(elems))

\* variant: only the action names are sent, the labels are left out
FlattenActionNames(note) ==
    [i \in 1..Len(note.Actions.elems) |-> note.Actions.elems[i].Name]

\* actions := []string{}; if note.Actions != nil { ... }
FlattenActions(note) ==
    IF ~note.Actions.nil THEN AppendActions(<<>>, note.Actions.elems)
                         ELSE <<>>

\* expire := int32(note.Expire); if expire > 0 { expire = int32(ms) }
WireExpire(note) ==
    LET expire == note.Expire IN
      IF expire > 0 THEN Int32(Milliseconds(note.Timeout)) ELSE expire

\* what the bus answers to a method call: a transport/remote error, or a
\* reply body
ErrReply == [err |-> TRUE, body |-> <<>>]
OkReply(body) == [err |-> FALSE, body |-> body]

NotifyReplies ==
    { ErrReply, OkReply(<<U32(1)>>), OkReply(<<U32(3)>>), OkReply(<<U32(0)>>),
      OkReply(<<>>),
      OkReply(<<Str("x")>>), OkReply(<<U32(1), U32(2)>>) }

CloseReplies == { ErrReply, OkReply(<<>>) }

\* the ids the caller passes to Dismiss
DismissIds == {0, 1, 3}

NoNote == [Actions |-> NilActions, Expire |-> Server, Timeout |-> Dur(0, 0, 0, 0)]
NoReply == [err |-> FALSE, body |-> <<>>]
NoWire == [actions |-> <<>>, expire |-> 0]
\* where the receive loop stood when a facade call was entered
NoAt == [loopPc |-> "", pulled |-> 0]
At == [loopPc |-> loopPc, pulled |-> Len(pulled)]
\* what a Dismiss call remembers of the operation completed just before it
NoAfter == [op |-> "none", id |-> 0, err |-> "", healthy |-> FALSE]
NoOp == [op |-> "none", via |-> "", note |-> NoNote, arg |-> 0,
         issued |-> <<>>, pending |-> FALSE, reply |-> NoReply, id |-> 0,
         err |-> "", after |-> NoAfter,
                val |-> <<>>, hasVal |-> FALSE, at |-> NoAt]

\* a healthy server answers Notify with one uint32 id greater than zero
HealthyNotify(reply) ==
    /\ ~reply.err
    /\ Len(reply.body) = 1
    /\ reply.body[1].t = "uint32"
    /\ reply.body[1].n > 0

\* variant: the reply is checked but ret is never written
StoreIDUnset(body) ==
    IF Len(body) = 1 /\ body[1].t = "uint32"
      THEN [id |-> 0, err |-> "nil"]
      ELSE [id |-> 0, err |-> "decode"]

\* call.Store(&ret) with ret an ID: the body must be exactly one uint32
StoreID(body) ==
    IF Len(body) = 1 /\ body[1].t = "uint32"
      THEN [id |-> ID(body[1].n), err |-> "nil"]
      ELSE [id |-> 0, err |-> "decode"]

\* Send, up to obj.Call: the Notify call it issues
SendIssue(note) ==
    << [method |-> callNotify, id |-> 0,
        wire |-> [actions |-> FlattenActions(note),
                  expire |-> WireExpire(note)]] >>

\* variant: call.Err is not looked at, the reply goes straight to Store
SendResultIgnoreErr(reply) == StoreID(reply.body)

\* Send, after obj.Call: if call.Err != nil { return 0, call.Err };
\* err := call.Store(&ret); return ret, err
SendResult(reply) ==
    IF reply.err THEN [id |-> 0, err |-> "transport"]
                 ELSE StoreID(reply.body)

\* variant: no zero check (as in the earlier revision of Dismiss)
DismissIssueUnchecked(id) ==
    << [method |-> callCloseNotification, id |-> id, wire |-> NoWire] >>

\* Dismiss, up to obj.Call: the zero check, then the CloseNotification call
DismissIssue(id) ==
    IF id = 0
      THEN <<>>
      ELSE << [method |-> callCloseNotification, id |-> id,
               wire |-> NoWire] >>

\* Dismiss, after obj.Call: return call.Err
DismissResult(reply) == IF reply.err THEN "transport" ELSE "nil"

MethodsOf(issued) == [i \in 1..Len(issued) |-> issued[i].method]

\* variant: a Send on a handle whose loop has exited starts the loop again
SendRestartsLoop(via, note) ==
    /\ Alive
    /\ via = "notifier" => handle
    /\ ~last.pending
    /\ Len(callLog) < MaxCalls
    /\ callLog' = callLog \o MethodsOf(SendIssue(note))
    /\ last' = [op |-> "Send", via |-> via, note |-> note, arg |-> 0,
                issued |-> SendIssue(note), pending |-> TRUE,
                reply |-> NoReply, id |-> 0, err |-> "", after |-> NoAfter,
                val |-> <<>>, hasVal |-> FALSE, at |-> At]
    /\ loopPc' = IF loopPc = "returned" THEN "select" ELSE loopPc
    /\ UNCHANGED <<handle, newErr, onClosed, onAction, matchRules,
                   signalRegistered, signal, emitted, shutdownCalled,
                   connDone, cur, pulled, invocations, closePc, closeCalls,
                   queuedAtClose>>

\* Send(conn, note) (via = "pkg") or notifier.Send(note) (via = "notifier",
\* which is Send(n.conn, note)): the caller enters and blocks in obj.Call
Send(via, note) ==
    /\ Alive
    /\ via = "notifier" => handle
    /\ ~last.pending
    /\ Len(callLog) < MaxCalls
    /\ callLog' = callLog \o MethodsOf(SendIssue(note))
    /\ last' = [op |-> "Send", via |-> via, note |-> note, arg |-> 0,
                issued |-> SendIssue(note), pending |-> TRUE,
                reply |-> NoReply, id |-> 0, err |-> "", after |-> NoAfter,
                val |-> <<>>, hasVal |-> FALSE, at |-> At]
    /\ UNCHANGED dispVars

\* the bus answers the Notify call and Send returns
SendReturn(reply) ==
    /\ Alive
    /\ last.op = "Send"
    /\ last.pending
    /\ last' = [last EXCEPT !.pending = FALSE, !.reply = reply,
                            !.id = SendResult(reply).id,
                            !.err = SendResult(reply).err]
    /\ UNCHANGED <<dispVars, callLog>>

\* Dismiss(conn, id) or notifier.Dismiss(id) (Dismiss(n.conn, id)): returns
\* at once for id 0, otherwise blocks in obj.Call
Dismiss(via, id) ==
    /\ Alive
    /\ via = "notifier" => handle
    /\ ~last.pending
    /\ Len(callLog) < MaxCalls
    /\ callLog' = callLog \o MethodsOf(DismissIssue(id))
    /\ last' = [op |-> "Dismiss", via |-> via, note |-> NoNote, arg |-> id,
                issued |-> DismissIssue(id),
                pending |-> DismissIssue(id) # <<>>,
                reply |-> NoReply, id |-> 0,
                err |-> IF DismissIssue(id) = <<>> THEN "invalid" ELSE "",
                after |-> [op |-> last.op, id |-> last.id, err |-> last.err,
                           healthy |-> HealthyNotify(last.reply)],
                val |-> <<>>, hasVal |-> FALSE, at |-> At]
    /\ UNCHANGED dispVars

\* variant: a Dismiss that went through empties the on-closed slot
DismissReturnClearsSlot(reply) ==
    /\ Alive
    /\ last.op = "Dismiss"
    /\ last.pending
    /\ last' = [last EXCEPT !.pending = FALSE, !.reply = reply,
                            !.err = DismissResult(reply)]
    /\ onClosed' = IF reply.err THEN onClosed ELSE FALSE
    /\ UNCHANGED <<handle, newErr, onAction, matchRules, signalRegistered,
                   signal, emitted, shutdownCalled, connDone, loopPc, cur,
                   pulled, invocations, closePc, closeCalls, queuedAtClose,
                   callLog>>

\* the bus answers the CloseNotification call and Dismiss returns
DismissReturn(reply) ==
    /\ Alive
    /\ last.op = "Dismiss"
    /\ last.pending
    /\ last' = [last EXCEPT !.pending = FALSE, !.reply = reply,
                            !.err = DismissResult(reply)]
    /\ UNCHANGED <<dispVars, callLog>>

\* --------------------------------------------------------- server queries
callGetCapabilities == "org.freedesktop.Notifications.GetCapabilities"
callGetServerInformation == "org.freedesktop.Notifications.GetServerInformation"

\* a dbus array of strings; s names the list it carries
StrArray(s) == [t |-> "as", n |-> 0, s |-> s]

\* what the bus may answer to GetServerInformation and to GetCapabilities
InfoReplies ==
    { ErrReply,
      OkReply(<<Str("dunst"), Str("knopwob"), Str("1.9"), Str("1.2")>>),
      OkReply(<<Str("dunst"), Str("knopwob"), Str("1.9")>>),
      OkReply(<<Str("dunst"), Str("knopwob"), U32(1), Str("1.2")>>),
      OkReply(<<Str("dunst"), Str("knopwob"), Str("1.9"), Str("1.2"),
                Str("x")>>) }
CapsReplies ==
    { ErrReply, OkReply(<<StrArray("body actions")>>), OkReply(<<>>),
      OkReply(<<Str("body")>>),
      OkReply(<<StrArray("body"), StrArray("actions")>>) }

\* call.Store(&ret.Name, &ret.Vendor, &ret.Version, &ret.SpecVersion): the
\* body must have four values; they are stored in order, up to the first one
\* that is not a string
StringsUpTo(body, i) == \A k \in 1..i : body[k].t = "string"
\* variant: a short reply is accepted, the fields it lacks stay empty
StoreInfoLenient(body) ==
    IF Len(body) > 4
      THEN [val |-> <<"", "", "", "">>, err |-> "decode"]
      ELSE [val |-> [i \in 1..4 |->
                        IF i <= Len(body) /\ StringsUpTo(body, i)
                          THEN body[i].s ELSE ""],
            err |-> IF StringsUpTo(body, Len(body)) THEN "nil" ELSE "decode"]

StoreInfo(body) ==
    IF Len(body) # 4
      THEN [val |-> <<"", "", "", "">>, err |-> "decode"]
      ELSE [val |-> [i \in 1..4 |->
                        IF StringsUpTo(body, i) THEN body[i].s ELSE ""],
            err |-> IF StringsUpTo(body, 4) THEN "nil" ELSE "decode"]

\* GetServerInfo, up to obj.Call (conn.Object never gives nil): one call
GetServerInfoIssue ==
    << [method |-> callGetServerInformation, id |-> 0, wire |-> NoWire] >>

\* GetServerInfo, after obj.Call: if call.Err != nil { return nil, call.Err };
\* ret := ServerInfo{}; err := call.Store(...); return &ret, err
GetServerInfoResult(reply) ==
    IF reply.err
      THEN [hasVal |-> FALSE, val |-> <<>>, err |-> "transport"]
      ELSE [hasVal |-> TRUE, val |-> StoreInfo(reply.body).val,
            err |-> StoreInfo(reply.body).err]

\* GetServerCapabilities, up to obj.Call: one call
GetServerCapabilitiesIssue ==
    << [method |-> callGetCapabilities, id |-> 0, wire |-> NoWire] >>

\* GetServerCapabilities, after obj.Call: if call.Err != nil { return nil,
\* call.Err }; var ret []string; err := call.Store(&ret); return ret, err
GetServerCapabilitiesResult(reply) ==
    IF reply.err
      THEN [hasVal |-> FALSE, val |-> <<>>, err |-> "transport"]
      ELSE IF Len(reply.body) = 1 /\ reply.body[1].t = "as"
        THEN [hasVal |-> TRUE, val |-> <<reply.body[1].s>>, err |-> "nil"]
        ELSE [hasVal |-> FALSE, val |-> <<>>, err |-> "decode"]

\* GetServerInfo(conn) or notifier.GetServerInfo() (GetServerInfo(n.conn)):
\* the caller enters and blocks in obj.Call
GetServerInfo(via) ==
    /\ Alive
    /\ via = "notifier" => handle
    /\ ~last.pending
    /\ Len(callLog) < MaxCalls
    /\ callLog' = callLog \o MethodsOf(GetServerInfoIssue)
    /\ last' = [op |-> "GetServerInfo", via |-> via, note |-> NoNote,
                arg |-> 0, issued |-> GetServerInfoIssue, pending |-> TRUE,
                reply |-> NoReply, id |-> 0, err |-> "", after |-> NoAfter,
                val |-> <<>>, hasVal |-> FALSE, at |-> At]
    /\ UNCHANGED dispVars

\* the bus answers and GetServerInfo returns
GetServerInfoReturn(reply) ==
    /\ Alive
    /\ last.op = "GetServerInfo"
    /\ last.pending
    /\ last' = [last EXCEPT !.pending = FALSE, !.reply = reply,
                            !.hasVal = GetServerInfoResult(reply).hasVal,
                            !.val = GetServerInfoResult(reply).val,
                            !.err = GetServerInfoResult(reply).err]
    /\ UNCHANGED <<dispVars, callLog>>

\* GetServerCapabilities(conn) or notifier.GetServerCapabilities()
GetServerCapabilities(via) ==
    /\ Alive
    /\ via = "notifier" => handle
    /\ ~last.pending
    /\ Len(callLog) < MaxCalls
    /\ callLog' = callLog \o MethodsOf(GetServerCapabilitiesIssue)
    /\ last' = [op |-> "GetServerCapabilities", via |-> via, note |-> NoNote,
                arg |-> 0, issued |-> GetServerCapabilitiesIssue,
                pending |-> TRUE, reply |-> NoReply, id |-> 0, err |-> "",
                after |-> NoAfter, val |-> <<>>, hasVal |-> FALSE, at |-> At]
    /\ UNCHANGED dispVars

\* variant: a failed call is made once more before the error is returned
GetServerCapabilitiesReturnRetries(reply) ==
    /\ Alive
    /\ last.op = "GetServerCapabilities"
    /\ last.pending
    /\ IF reply.err /\ Len(last.issued) = 1
         THEN /\ last' = [last EXCEPT
                            !.issued = @ \o GetServerCapabilitiesIssue]
              /\ callLog' = callLog \o MethodsOf(GetServerCapabilitiesIssue)
         ELSE /\ last' = [last EXCEPT !.pending = FALSE, !.reply = reply,
                      !.hasVal = GetServerCapabilitiesResult(reply).hasVal,
                      !.val = GetServerCapabilitiesResult(reply).val,
                      !.err = GetServerCapabilitiesResult(reply).err]
              /\ UNCHANGED callLog
    /\ UNCHANGED dispVars

\* the bus answers and GetServerCapabilities returns
GetServerCapabilitiesReturn(reply) ==
    /\ Alive
    /\ last.op = "GetServerCapabilities"
    /\ last.pending
    /\ last' = [last EXCEPT !.pending = FALSE, !.reply = reply,
                  !.hasVal = GetServerCapabilitiesResult(reply).hasVal,
                  !.val = GetServerCapabilitiesResult(reply).val,
                  !.err = GetServerCapabilitiesResult(reply).err]
    /\ UNCHANGED <<dispVars, callLog>>

\* ------------------------------------------- facade calls from callbacks
\* A callback runs on its own goroutine (go n.onClosed(...), go
\* n.onAction(...)) and may use the handle it was registered on: n.Send and
\* n.Dismiss go to Send(n.conn, ...) and Dismiss(n.conn, ...), which touch
\* neither n.signal nor n.ctx.

\* callback i calls n.Send(note) and blocks in obj.Call
CallbackSend(i, note) ==
    /\ Alive
    /\ handle
    /\ i \in 1..Len(invocations)
    /\ invocations[i].st = "running"
    /\ ~last.pending
    /\ Len(callLog) < MaxCalls
    /\ invocations' = [invocations EXCEPT ![i].st = "calling"]
    /\ callLog' = callLog \o MethodsOf(SendIssue(note))
    /\ last' = [op |-> "Send", via |-> "callback", note |-> note, arg |-> 0,
                issued |-> SendIssue(note), pending |-> TRUE,
                reply |-> NoReply, id |-> 0, err |-> "", after |-> NoAfter,
                val |-> <<>>, hasVal |-> FALSE, at |-> At]
    /\ UNCHANGED <<handle, newErr, onClosed, onAction, matchRules,
                   signalRegistered, signal, emitted, shutdownCalled,
                   connDone, loopPc, cur, pulled, closePc, closeCalls,
                   queuedAtClose>>

\* the bus answers and n.Send returns into callback i
CallbackSendReturn(i, reply) ==
    /\ Alive
    /\ i \in 1..Len(invocations)
    /\ invocations[i].st = "calling"
    /\ last.op = "Send"
    /\ last.pending
    /\ invocations' = [invocations EXCEPT ![i].st = "running"]
    /\ last' = [last EXCEPT !.pending = FALSE, !.reply = reply,
                            !.id = SendResult(reply).id,
                            !.err = SendResult(reply).err]
    /\ UNCHANGED callLog
    /\ UNCHANGED <<handle, newErr, onClosed, onAction, matchRules,
                   signalRegistered, signal, emitted, shutdownCalled,
                   connDone, loopPc, cur, pulled, closePc, closeCalls,
                   queuedAtClose>>

\* callback i calls n.Dismiss(id): back at once for id 0, otherwise it
\* blocks in obj.Call
CallbackDismiss(i, id) ==
    /\ Alive
    /\ handle
    /\ i \in 1..Len(invocations)
    /\ invocations[i].st = "running"
    /\ ~last.pending
    /\ Len(callLog) < MaxCalls
    /\ invocations' = [invocations EXCEPT
          ![i].st = IF DismissIssue(id) = <<>> THEN "running" ELSE "calling"]
    /\ callLog' = callLog \o MethodsOf(DismissIssue(id))
    /\ last' = [op |-> "Dismiss", via |-> "callback", note |-> NoNote,
                arg |-> id, issued |-> DismissIssue(id),
                pending |-> DismissIssue(id) # <<>>,
                reply |-> NoReply, id |-> 0,
                err |-> IF DismissIssue(id) = <<>> THEN "invalid" ELSE "",
                after |-> [op |-> last.op, id |-> last.id, err |-> last.err,
                           healthy |-> HealthyNotify(last.reply)],
                val |-> <<>>, hasVal |-> FALSE, at |-> At]
    /\ UNCHANGED <<handle, newErr, onClosed, onAction, matchRules,
                   signalRegistered, signal, emitted, shutdownCalled,
                   connDone, loopPc, cur, pulled, closePc, closeCalls,
                   queuedAtClose>>

\* the bus answers and n.Dismiss returns into callback i
CallbackDismissReturn(i, reply) ==
    /\ Alive
    /\ i \in 1..Len(invocations)
    /\ invocations[i].st = "calling"
    /\ last.op = "Dismiss"
    /\ last.pending
    /\ invocations' = [invocations EXCEPT ![i].st = "running"]
    /\ last' = [last EXCEPT !.pending = FALSE, !.reply = reply,
                            !.err = DismissResult(reply)]
    /\ UNCHANGED callLog
    /\ UNCHANGED <<handle, newErr, onClosed, onAction, matchRules,
                   signalRegistered, signal, emitted, shutdownCalled,
                   connDone, loopPc, cur, pulled, closePc, closeCalls,
                   queuedAtClose>>

\* ------------------------------------------------------------------- Init
Init ==
    /\ handle = FALSE
    /\ newErr = FALSE
    /\ onClosed = FALSE
    /\ onAction = FALSE
    /\ matchRules = 0
    /\ signalRegistered = FALSE
    /\ signal = <<>>
    /\ emitted = 0
    /\ shutdownCalled = FALSE
    /\ connDone = FALSE
    /\ loopPc = "none"
    /\ cur = NoFrame
    /\ pulled = <<>>
    /\ invocations = <<>>
    /\ closePc = "idle"
    /\ closeCalls = <<>>
    /\ queuedAtClose = {}
    /\ callLog = <<>>
    /\ last = NoOp

\* ------------------------------------------------------------------- Next
\* The dispatcher and its environment.  A started callback either stays
\* running or blocks for good; nothing in the notifier reads whether a
\* callback has returned, and callbacks that return (and that call back
\* into the handle) are in SpecReentrant.
Next ==
    \/ \E withClosed \in BOOLEAN, withAction \in BOOLEAN, accepted \in BOOLEAN :
          New(withClosed, withAction, accepted)
    \/ \E shape \in FrameShapes : Deliver(shape)
    \/ ConnLost
    \/ ReceiveDone
    \/ ReceiveSignal
    \/ DispatchSignal
    \/ \E i \in 1..MaxFrames : CallbackBlock(i)
    \/ CloseShutdown
    \/ CloseRemoveSignal
    \/ \E accepted \in BOOLEAN : CloseRemoveMatchSignal(accepted)

Spec == Init /\ [][Next]_vars

\* the facade operations, on a connection with or without a Notifier
NextFacade ==
    \/ \E withClosed \in BOOLEAN, withAction \in BOOLEAN, accepted \in BOOLEAN :
          New(withClosed, withAction, accepted)
    \/ \E via \in {"pkg", "notifier"}, note \in Notes : Send(via, note)
    \/ \E reply \in NotifyReplies : SendReturn(reply)
    \/ \E via \in {"pkg", "notifier"}, id \in DismissIds : Dismiss(via, id)
    \/ \E reply \in CloseReplies : DismissReturn(reply)
    \/ \E via \in {"pkg", "notifier"} : GetServerInfo(via)
    \/ \E reply \in InfoReplies : GetServerInfoReturn(reply)
    \/ \E via \in {"pkg", "notifier"} : GetServerCapabilities(via)
    \/ \E reply \in CapsReplies : GetServerCapabilitiesReturn(reply)

SpecFacade == Init /\ [][NextFacade]_vars

\* the frames tried on a Notifier without callbacks: one well-formed, one
\* malformed, one of an unrecognized name
NoCallbackShapes ==
    { [Name |-> signalNotificationClosed, Body |-> <<U32(42), U32(1)>>],
      [Name |-> signalActionInvoked,      Body |-> <<U32(7), U32(1)>>],
      [Name |-> signalOther,              Body |-> <<>>] }

\* a Notifier built with no option at all: New(conn).  The goroutines that
\* exist are scheduled: the receive loop takes its next step when it has one,
\* and a caller inside Close goes on to its next statement and gets the bus's
\* answer.  Nothing is assumed about when Close is called or frames arrive.
NextNoCallbacks ==
    \/ \E accepted \in BOOLEAN : New(FALSE, FALSE, accepted)
    \/ \E shape \in NoCallbackShapes : Deliver(shape)
    \/ ConnLost
    \/ ReceiveDone
    \/ ReceiveSignal
    \/ DispatchSignal
    \/ CloseShutdown
    \/ CloseRemoveSignal
    \/ \E accepted \in BOOLEAN : CloseRemoveMatchSignal(accepted)

SpecNoCallbacks ==
    /\ Init
    /\ [][NextNoCallbacks]_vars
    /\ WF_vars(ReceiveDone \/ ReceiveSignal \/ DispatchSignal)
    /\ WF_vars(CloseRemoveSignal)
    /\ WF_vars(\E accepted \in BOOLEAN : CloseRemoveMatchSignal(accepted))

\* the dispatcher with callbacks that call Send and Dismiss on their handle
ReentrantShapes ==
    { [Name |-> signalActionInvoked, Body |-> <<U32(7), Str("cancel")>>] }

ReentrantNotes ==
    { [Actions |-> NilActions, Expire |-> Server, Timeout |-> Dur(0, 0, 0, 0)] }
ReentrantNotifyReplies == { OkReply(<<U32(3)>>) }
ReentrantCloseReplies == { OkReply(<<>>) }
ReentrantDismissIds == {3}

NextReentrant ==
    \/ \E accepted \in BOOLEAN : New(TRUE, TRUE, accepted)
    \/ \E shape \in ReentrantShapes : Deliver(shape)
    \/ ReceiveDone
    \/ ReceiveSignal
    \/ DispatchSignal
    \/ \E i \in 1..MaxFrames : CallbackReturn(i)
    \/ \E i \in 1..MaxFrames : CallbackBlock(i)
    \/ \E i \in 1..MaxFrames, note \in ReentrantNotes : CallbackSend(i, note)
    \/ \E i \in 1..MaxFrames, reply \in ReentrantNotifyReplies :
          CallbackSendReturn(i, reply)
    \/ \E i \in 1..MaxFrames, id \in ReentrantDismissIds :
          CallbackDismiss(i, id)
    \/ \E i \in 1..MaxFrames, reply \in ReentrantCloseReplies :
          CallbackDismissReturn(i, reply)
    \/ CloseShutdown
    \/ CloseRemoveSignal
    \/ \E accepted \in BOOLEAN : CloseRemoveMatchSignal(accepted)

SpecReentrant == Init /\ [][NextReentrant]_vars

\* a Notifier with both callbacks, closed by its user while frames of every
\* kind arrive; the goroutines that exist are scheduled as in SpecNoCallbacks
CloseShapes ==
    { [Name |-> signalNotificationClosed, Body |-> <<U32(42), U32(1)>>],
      [Name |-> signalActionInvoked,      Body |-> <<U32(7), U32(1)>>],
      [Name |-> signalOther,              Body |-> <<>>] }

NextClose ==
    \/ \E accepted \in BOOLEAN : New(TRUE, TRUE, accepted)
    \/ \E shape \in CloseShapes : Deliver(shape)
    \/ ConnLost
    \/ ReceiveDone
    \/ ReceiveSignal
    \/ DispatchSignal
    \/ CloseShutdown
    \/ CloseRemoveSignal
    \/ \E accepted \in BOOLEAN : CloseRemoveMatchSignal(accepted)

SpecClose ==
    /\ Init
    /\ [][NextClose]_vars
    /\ WF_vars(ReceiveDone \/ ReceiveSignal \/ DispatchSignal)
    /\ WF_vars(CloseRemoveSignal)
    /\ WF_vars(\E accepted \in BOOLEAN : CloseRemoveMatchSignal(accepted))

\* a Notifier in use: its owner calls the four operations of the handle,
\* and Close, while frames arrive; the server speaks of the notification
\* with id 3, the id its Notify replies carry
HandleShapes ==
    { [Name |-> signalNotificationClosed, Body |-> <<U32(3), U32(1)>>] }
HandleInfoReplies ==
    { OkReply(<<Str("dunst"), Str("knopwob"), Str("1.9"), Str("1.2")>>) }
HandleCapsReplies == { OkReply(<<StrArray("body actions")>>) }

NextHandle ==
    \/ \E accepted \in BOOLEAN : New(TRUE, TRUE, accepted)
    \/ \E shape \in HandleShapes : Deliver(shape)
    \/ ConnLost
    \/ ReceiveDone
    \/ ReceiveSignal
    \/ DispatchSignal
    \/ CloseShutdown
    \/ CloseRemoveSignal
    \/ \E accepted \in BOOLEAN : CloseRemoveMatchSignal(accepted)
    \/ \E note \in ReentrantNotes : Send("notifier", note)
    \/ \E reply \in ReentrantNotifyReplies : SendReturn(reply)
    \/ \E id \in ReentrantDismissIds : Dismiss("notifier", id)
    \/ \E reply \in ReentrantCloseReplies : DismissReturn(reply)
    \/ GetServerInfo("notifier")
    \/ \E reply \in HandleInfoReplies : GetServerInfoReturn(reply)
    \/ GetServerCapabilities("notifier")
    \/ \E reply \in HandleCapsReplies : GetServerCapabilitiesReturn(reply)

SpecHandle == Init /\ [][NextHandle]_vars

\* a Notifier whose on-closed handler renders the reason; the server sends
\* every known reason, 0, the first value above the known ones, 99 and the
\* largest value the checker's integers hold
MaxReason == 2147483647
Reasons == {0, Expired, DismissedByUser, DismissedByCall, Unknown, 5, 99,
            MaxReason}
ReasonShapes ==
    { [Name |-> signalNotificationClosed, Body |-> <<U32(42), U32(r)>>] :
        r \in Reasons }

NextRender ==
    \/ \E accepted \in BOOLEAN : New(TRUE, FALSE, accepted)
    \/ \E shape \in ReasonShapes : Deliver(shape)
    \/ ReceiveSignal
    \/ DispatchSignal
    \/ \E i \in 1..MaxFrames : CallbackRender(i)

SpecRender == Init /\ [][NextRender]_vars

\* ================================================================ claims
InvocationsOf(k) == { j \in 1..Len(invocations) : invocations[j].seq = k }

\* the i-th received frame has been through the switch
Handled(i) == i < Len(pulled) \/ loopPc # "switch"

WellFormedClosed(f) ==
    f.Name = signalNotificationClosed /\ ClosedArgsOk(f.Body)
WellFormedAction(f) ==
    f.Name = signalActionInvoked /\ ActionArgsOk(f.Body)
Malformed(f) ==
    \/ f.Name = signalNotificationClosed /\ ~ClosedArgsOk(f.Body)
    \/ f.Name = signalActionInvoked /\ ~ActionArgsOk(f.Body)

\* C1: once a Close call has returned, no frame that was still in the
\* delivery queue at that moment is received by the loop, and no callback is
\* started for it.
C1_NoPullAfterClose ==
    /\ \A i \in 1..Len(pulled) : pulled[i].seq \notin queuedAtClose
    /\ \A k \in queuedAtClose : InvocationsOf(k) = {}

\* C2: the second (and any later) Close makes no call on the connection,
\* neither RemoveSignal nor RemoveMatchSignal, and returns nil.
C2_SecondCloseNoop ==
    \A k \in 2..Len(closeCalls) :
        /\ closeCalls[k].ops = <<>>
        /\ closeCalls[k].ret \in {"pending", "nil"}

\* C3: a NotificationClosed or ActionInvoked frame with a malformed body is
\* skipped: no callback is started for it and the receive loop does not
\* fail on it.
C3_MalformedSkipped ==
    \A i \in 1..Len(pulled) :
        Malformed(pulled[i]) =>
            /\ InvocationsOf(pulled[i].seq) = {}
            /\ ~(loopPc = "panicked" /\ cur = pulled[i])

\* the expire_timeout the claim C4 expects for a request
ExpectedExpire(note) ==
    CASE note.Expire = Server -> -1
      [] note.Expire = Never -> 0
      [] note.Expire = Timeout -> Int32(Milliseconds(note.Timeout))

\* C4: the expire_timeout Send puts on the wire is -1 for policy Server, 0
\* for policy Never and the Timeout in milliseconds for policy Timeout.
C4_ExpiryFromPolicy ==
    last.op = "Send" =>
        last.issued[1].wire.expire = ExpectedExpire(last.note)

\* C5: every Dismiss step, package-level or through the handle: with id 0 it
\* returns the invalid-argument error at once and calls nothing on the bus;
\* with another id it issues exactly one CloseNotification(id) and returns
\* the error of that call, or nil.
C5_DismissZeroCheck ==
    [][ (last'.op = "Dismiss" /\ last' # last) =>
          IF last'.arg = 0
            THEN /\ ~last'.pending
                 /\ last'.err = "invalid"
                 /\ callLog' = callLog
            ELSE IF last'.pending
              THEN /\ callLog' = Append(callLog, callCloseNotification)
                   /\ Len(last'.issued) = 1
                   /\ last'.issued[1].id = last'.arg
              ELSE /\ callLog' = callLog
                   /\ last'.err = IF last'.reply.err THEN "transport"
                                                     ELSE "nil" ]_vars

\* Dismiss(0) through the handle was refused after an earlier Dismiss of a
\* non-zero id had issued its CloseNotification call
C5_Witness ==
    /\ last.op = "Dismiss" /\ last.via = "notifier" /\ last.arg = 0
    /\ last.err = "invalid"
    /\ callLog = <<callCloseNotification>>

\* C6: with on-closed registered, every well-formed NotificationClosed frame
\* that went through the switch started exactly one callback, on-closed,
\* with the frame's id and its reason code as it came (in range or not);
\* before the switch it has started none.
C6_ClosedDispatchedOnce ==
    \A i \in 1..Len(pulled) :
        (WellFormedClosed(pulled[i]) /\ onClosed) =>
            IF Handled(i)
              THEN /\ Cardinality(InvocationsOf(pulled[i].seq)) = 1
                   /\ \A j \in InvocationsOf(pulled[i].seq) :
                         /\ invocations[j].cb = "onClosed"
                         /\ invocations[j].id = pulled[i].Body[1].n
                         /\ invocations[j].reason = pulled[i].Body[2].n
              ELSE InvocationsOf(pulled[i].seq) = {}

\* on-closed was started with (42, 99), a reason outside the known range
C6_Witness ==
    \E j \in 1..Len(invocations) :
        /\ invocations[j].cb = "onClosed"
        /\ invocations[j].id = 42
        /\ invocations[j].reason = 99

\* C7: with on-action registered, every well-formed ActionInvoked frame that
\* went through the switch started exactly one callback, on-action, with the
\* frame's id and action key, and never on-closed.
C7_ActionDispatchedOnce ==
    \A i \in 1..Len(pulled) :
        (WellFormedAction(pulled[i]) /\ onAction) =>
            IF Handled(i)
              THEN /\ Cardinality(InvocationsOf(pulled[i].seq)) = 1
                   /\ \A j \in InvocationsOf(pulled[i].seq) :
                         /\ invocations[j].cb = "onAction"
                         /\ invocations[j].id = pulled[i].Body[1].n
                         /\ invocations[j].actionName = pulled[i].Body[2].s
              ELSE InvocationsOf(pulled[i].seq) = {}

\* on-action was started with (7, "cancel") while on-closed is registered too
C7_Witness ==
    /\ onClosed
    /\ \E j \in 1..Len(invocations) :
          /\ invocations[j].cb = "onAction"
          /\ invocations[j].id = 7
          /\ invocations[j].actionName = "cancel"

\* C8: whatever the callbacks do, a receive loop that has not exited is
\* never stuck: with a frame waiting in the queue or in its hands it can
\* take its next step (receive the frame, or run the switch).
C8_LoopNeverStalls ==
    (handle /\ loopPc \notin {"returned", "panicked"}
            /\ (signal # <<>> \/ loopPc = "switch"))
        => ENABLED (ReceiveSignal \/ DispatchSignal)

\* a callback is blocked forever and a frame emitted after the one that
\* started it has been received and dispatched
C8_Witness ==
    \E i \in 1..Len(invocations), j \in 1..Len(invocations) :
        /\ invocations[i].st = "blocked"
        /\ invocations[j].seq > invocations[i].seq

\* C9: Close cancels, then unregisters the queue, then removes the filter;
\* when the bus rejects the removal Close returns the error and the context
\* stays cancelled and the queue unregistered.
C9_CloseOrder ==
    /\ closePc \in {"RemoveSignal", "RemoveMatchSignal"} => shutdownCalled
    /\ closePc = "RemoveMatchSignal" => ~signalRegistered
    /\ \A k \in 1..Len(closeCalls) :
          /\ closeCalls[k].ops \in
                { <<>>, <<"RemoveSignal">>,
                  <<"RemoveSignal", "RemoveMatchSignal">> }
          /\ closeCalls[k].busErr =>
                /\ closeCalls[k].ret = "err"
                /\ shutdownCalled
                /\ ~signalRegistered

\* a Close returned the error of a rejected RemoveMatchSignal
C9_Witness ==
    \E k \in 1..Len(closeCalls) :
        closeCalls[k].busErr /\ closeCalls[k].ret = "err"

\* C10: while New has only failed (the bus rejected AddMatchSignal), there
\* is no handle, the queue was never registered with the connection, no
\* receive loop exists and no frame was delivered.
C10_NewFailureInert ==
    (newErr /\ ~handle) =>
        /\ ~signalRegistered
        /\ loopPc = "none"
        /\ signal = <<>>
        /\ emitted = 0

\* New was called and returned an error
C10_Witness == newErr /\ ~handle


\* C11: a Notifier without callbacks never starts a callback and its loop
\* never fails, whatever frames arrive; a non-empty queue is eventually
\* emptied by the loop (every frame in it is received) unless the loop has
\* returned first; and once Close was called the loop eventually returns.
C11_NoCallbacksConsumesAndStops ==
    /\ [](handle => (invocations = <<>> /\ loopPc # "panicked"))
    /\ (signal # <<>>) ~> (signal = <<>> \/ loopPc = "returned")
    /\ (shutdownCalled ~> loopPc = "returned")

\* without callbacks, a malformed and an unrecognized frame went through the
\* switch and the loop returned after a Close
C11_Witness ==
    /\ handle /\ ~onClosed /\ ~onAction
    /\ \E i \in 1..Len(pulled) : Malformed(pulled[i])
    /\ \E i \in 1..Len(pulled) : pulled[i].Name = signalOther
    /\ closeCalls # <<>>
    /\ loopPc = "returned"


\* C12: the actions array of the Notify call is the action list flattened:
\* twice as long as the list, the i-th action's name at wire index 2i-2 and
\* its label at 2i-1 (0-based), in list order; a nil or empty list gives an
\* empty array.
C12_ActionsFlattened ==
    last.op = "Send" =>
        LET acts == last.note.Actions.elems
            wire == last.issued[1].wire.actions
        IN /\ Len(wire) = 2 * Len(acts)
           /\ \A i \in 1..Len(acts) :
                 /\ wire[2 * i - 1] = acts[i].Name
                 /\ wire[2 * i] = acts[i].Summary
           /\ last.note.Actions.nil => wire = <<>>

\* the two-action request of the example was sent flattened
C12_Witness ==
    /\ last.op = "Send"
    /\ Len(last.note.Actions.elems) = 2
    /\ last.issued[1].wire.actions =
          <<"confirm", "Confirm.", "cancel", "Cancel.">>


\* C13: when the server answers Notify healthily, Send returns a nil error
\* and an id greater than 0; a Dismiss of that id called right after passes
\* the zero check, issues its call, and returns nil when the server accepts
\* the CloseNotification.
C13_SendThenDismiss ==
    /\ (last.op = "Send" /\ ~last.pending /\ HealthyNotify(last.reply)) =>
          (last.err = "nil" /\ last.id > 0)
    /\ (last.op = "Dismiss" /\ last.after.op = "Send" /\ last.after.healthy
            /\ last.arg = last.after.id) =>
          /\ last.after.err = "nil"
          /\ last.arg > 0
          /\ last.err # "invalid"
          /\ Len(last.issued) = 1
          /\ (~last.pending /\ ~last.reply.err) => last.err = "nil"

\* Send got id 3 from a healthy server and the Dismiss(3) that followed it
\* returned nil
C13_Witness ==
    /\ last.op = "Dismiss" /\ ~last.pending /\ last.err = "nil"
    /\ last.after.op = "Send" /\ last.after.healthy
    /\ last.after.id = 3 /\ last.arg = 3
    /\ callLog = <<callNotify, callCloseNotification>>


\* C14: a completed Send whose bus call errored returns id 0 and the
\* transport error; one whose reply is not exactly one uint32 returns a
\* decode error; and a nil error comes only with a one-uint32 reply whose
\* value is the returned id.
C14_SendErrors ==
    (last.op = "Send" /\ ~last.pending) =>
        LET body == last.reply.body
            single == Len(body) = 1 /\ body[1].t = "uint32"
        IN /\ last.reply.err => (last.id = 0 /\ last.err = "transport")
           /\ (~last.reply.err /\ ~single) => last.err = "decode"
           /\ last.err = "nil" =>
                 (~last.reply.err /\ single /\ last.id = body[1].n)
           /\ last.err \in {"nil", "transport", "decode"}

\* Send returned (0, transport error) after its one Notify call failed
C14_Witness ==
    /\ last.op = "Send" /\ ~last.pending
    /\ last.reply.err /\ last.err = "transport" /\ last.id = 0
    /\ Len(last.issued) = 1 /\ last.issued[1].method = callNotify


\* the switch starts a callback for frame f
CallbackDue(f) ==
    \/ WellFormedClosed(f) /\ onClosed
    \/ WellFormedAction(f) /\ onAction

\* C15: frames are received in the order they were queued (the k-th frame
\* queued is the k-th received, and what is still queued follows in order),
\* callbacks are spawned in that same order, and when a frame is received
\* every earlier frame that calls for a callback already has its callback
\* spawned, while the frame just received has none yet.
C15_FifoOrder ==
    /\ \A i \in 1..Len(pulled) : pulled[i].seq = i
    /\ \A j \in 1..Len(signal) : signal[j].seq = Len(pulled) + j
    /\ \A a \in 1..Len(invocations) : \A b \in 1..Len(invocations) :
          a < b => invocations[a].seq < invocations[b].seq
    /\ \A a \in 1..Len(invocations) :
          /\ invocations[a].seq <= Len(pulled)
          /\ loopPc = "switch" => invocations[a].seq < Len(pulled)
    /\ \A i \in 1..Len(pulled) : \A k \in 1..(i - 1) :
          CallbackDue(pulled[k]) => InvocationsOf(k) # {}

\* two frames went through the loop, each with its callback, in queue order
C15_Witness ==
    /\ Len(pulled) = 2 /\ signal = <<>>
    /\ Len(invocations) = 2
    /\ invocations[1].seq = 1 /\ invocations[2].seq = 2
    /\ invocations[1].cb # invocations[2].cb


\* C16: while the dispatcher runs, with no Close and no connection loss, a
\* frame waiting in the delivery queue always has a live receive loop to
\* pull it (the loop is at its select or in its switch).
C16_NoSignalLost ==
    (handle /\ ~shutdownCalled /\ ~connDone /\ signal # <<>>) =>
        loopPc \in {"select", "switch"}

\* C17: after the connection's context is done, with Close never called,
\* no step of the receive loop fails: the loop does not panic.
C17_ConnLossNoFailure ==
    [][(handle /\ connDone /\ ~shutdownCalled) => loopPc' # "panicked"]_vars

\* C20: once Close has cancelled the context, the receive loop receives no
\* further frame.
C20_NoFrameAfterCancel ==
    [][shutdownCalled => pulled' = pulled]_vars


\* C18: as long as the process lives, whatever the callbacks are doing
\* (running, blocked forever, or inside a Send or Dismiss of their own), a
\* Close can start and take each of its steps through to its return, and a
\* callback inside Send or Dismiss gets its answer and goes on, whatever
\* the receive loop and Close are doing.
C18_CloseNeverWaits ==
    Alive =>
      /\ (handle /\ closePc = "idle" /\ Len(closeCalls) < MaxClose) =>
            ENABLED CloseShutdown
      /\ closePc = "RemoveSignal" => ENABLED CloseRemoveSignal
      /\ closePc = "RemoveMatchSignal" =>
            ENABLED (\E accepted \in BOOLEAN : CloseRemoveMatchSignal(accepted))
      /\ \A i \in 1..Len(invocations) :
            invocations[i].st = "calling" =>
              \/ ENABLED (\E reply \in ReentrantNotifyReplies :
                              CallbackSendReturn(i, reply))
              \/ ENABLED (\E reply \in ReentrantCloseReplies :
                              CallbackDismissReturn(i, reply))

\* a Close is between its statements while one callback is blocked for good
\* and another is inside a Dismiss it called on the handle
C18_Witness ==
    /\ closePc = "RemoveSignal"
    /\ \E i \in 1..Len(invocations) : invocations[i].st = "blocked"
    /\ \E i \in 1..Len(invocations) : invocations[i].st = "calling"
    /\ last.via = "callback" /\ last.op = "Dismiss" /\ last.pending


\* C19: every well-formed NotificationClosed or ActionInvoked frame that
\* went through the switch with its callback registered started that
\* callback with the frame's id, whether or not the id is one this process
\* got from Send.
C19_NoIdFilter ==
    \A i \in 1..Len(pulled) :
        (Handled(i) /\ CallbackDue(pulled[i])) =>
            \E j \in InvocationsOf(i) :
                /\ invocations[j].id = pulled[i].Body[1].n
                /\ invocations[j].cb =
                      IF pulled[i].Name = signalNotificationClosed
                        THEN "onClosed" ELSE "onAction"

\* callbacks ran for ids 42 and 7 in a process that holds no id from Send
C19_Witness ==
    /\ SentIds = {}
    /\ \E j \in 1..Len(invocations) :
          invocations[j].id = 42 /\ invocations[j].cb = "onClosed"
    /\ \E j \in 1..Len(invocations) :
          invocations[j].id = 7 /\ invocations[j].cb = "onAction"


\* C21: once a Close has been called on the dispatcher, its receive loop
\* eventually ends (it returns, or the process has died in it); it does not
\* stay at its select or in its switch for ever, whatever is queued and
\* whatever the bus answers to the removal of the filter.
C21_LoopEndsAfterClose ==
    (closeCalls # <<>>) ~> (loopPc \in {"returned", "panicked"})

\* the loop returned after a Close whose filter removal was rejected, having
\* received a frame that was queued when the context was cancelled
C21_Witness ==
    /\ closeCalls # <<>> /\ closeCalls[1].ret = "err"
    /\ ~connDone
    /\ loopPc = "returned"
    /\ \E i \in 1..Len(pulled) : pulled[i].seq \in queuedAtClose


\* C22: once the receive loop has returned, no step (Send, Dismiss, the two
\* server queries, a further Close, or anything else) puts a loop back,
\* registers the queue again or adds a filter.
C22_ClosedIsTerminal ==
    [][loopPc = "returned" =>
          /\ loopPc' = "returned"
          /\ signalRegistered' => signalRegistered
          /\ matchRules' <= matchRules]_vars

\* a Send entered after the loop had returned has completed, and two Close
\* calls have run, with the loop still gone
C22_Witness ==
    /\ loopPc = "returned"
    /\ last.op = "Send" /\ last.via = "notifier" /\ ~last.pending
    /\ last.at.loopPc = "returned"
    /\ Len(closeCalls) = 2 /\ closePc = "idle"


\* C23: the instance has a receive loop exactly when New has succeeded,
\* whatever options were passed, and never a second one: the one loop is at
\* one place of its code.  That loop is the only reader of the queue: every
\* frame the bus has queued is either still in the queue or among the
\* frames the loop received, each once.
C23_OneLoopOneReader ==
    /\ handle <=> loopPc # "none"
    /\ loopPc \in {"none", "select", "switch", "returned", "panicked"}
    /\ emitted = Len(pulled) + Len(signal)
    /\ \A i \in 1..Len(pulled) : \A j \in 1..Len(pulled) :
          pulled[i].seq = pulled[j].seq => i = j

\* New(conn) with no option has started the loop, which has read a frame
\* and left another in the queue
C23_Witness ==
    /\ handle /\ ~onClosed /\ ~onAction
    /\ loopPc = "select"
    /\ Len(pulled) = 1 /\ Len(signal) = 1


\* C24: a frame with a name other than the two signals, once through the
\* switch, has started no callback and has not failed the loop (its body,
\* which has none of the expected values, was not read); the loop is back
\* at its select, or has returned from there.
C24_OtherNameIgnored ==
    \A i \in 1..Len(pulled) :
        (pulled[i].Name = signalOther /\ Handled(i)) =>
            /\ InvocationsOf(i) = {}
            /\ ~(loopPc = "panicked" /\ cur = pulled[i])
            /\ i = Len(pulled) => loopPc \in {"select", "returned"}

\* with both callbacks registered a frame of another name went through the
\* switch and the loop then received the frame queued after it
C24_Witness ==
    /\ onClosed /\ onAction
    /\ Len(pulled) = 2
    /\ pulled[1].Name = signalOther
    /\ pulled[2].Name = signalNotificationClosed
    /\ invocations # <<>>

\* C25: a frame whose callback slot is empty, once through the switch, has
\* started nothing and has not failed the loop, well-formed or not; and a
\* well-formed frame whose slot is filled has started its callback, whether
\* or not the other slot is filled.
C25_SlotsIndependent ==
    \A i \in 1..Len(pulled) :
        Handled(i) =>
            /\ (pulled[i].Name = signalNotificationClosed /\ ~onClosed) =>
                  /\ InvocationsOf(i) = {}
                  /\ ~(loopPc = "panicked" /\ cur = pulled[i])
            /\ (pulled[i].Name = signalActionInvoked /\ ~onAction) =>
                  /\ InvocationsOf(i) = {}
                  /\ ~(loopPc = "panicked" /\ cur = pulled[i])
            /\ (WellFormedClosed(pulled[i]) /\ onClosed) =>
                  \E j \in InvocationsOf(i) : invocations[j].cb = "onClosed"
            /\ (WellFormedAction(pulled[i]) /\ onAction) =>
                  \E j \in InvocationsOf(i) : invocations[j].cb = "onAction"

\* only on-action is registered: a closed frame was dropped and the action
\* frame after it started on-action
C25_Witness ==
    /\ onAction /\ ~onClosed
    /\ Len(pulled) = 2 /\ loopPc # "switch"
    /\ pulled[1].Name = signalNotificationClosed
    /\ WellFormedAction(pulled[2])
    /\ Len(invocations) = 1 /\ invocations[1].seq = 2


\* C26: a step of Send, Dismiss, GetServerInfo or GetServerCapabilities
\* (entering the call or returning from it) changes nothing of the
\* dispatcher: not its loop, its queue, its registration, its callbacks or
\* its Close; the request handed to a call is the same when the call
\* returns; and once the handle exists no step at all changes the callbacks.
C26_FacadeLeavesLocalState ==
    [][/\ (last' # last \/ callLog' # callLog) => UNCHANGED dispVars
       /\ (last.pending /\ last' # last) => last'.note = last.note
       /\ handle => (onClosed' = onClosed /\ onAction' = onAction)]_vars

\* two calls on the handle have completed while the dispatcher is running
\* with a frame in its queue, both callbacks in place
C26_Witness ==
    /\ handle /\ onClosed /\ onAction
    /\ loopPc = "select" /\ signal # <<>> /\ ~shutdownCalled
    /\ callLog = <<callNotify, callGetCapabilities>>
    /\ last.op = "GetServerCapabilities" /\ ~last.pending


\* C27: entering Send, GetServerInfo, GetServerCapabilities or a Dismiss
\* with a non-zero id puts exactly one call on the bus (a Dismiss of 0
\* none); the step that follows in that operation is its return, which
\* puts no further call on the bus, also when the call failed, and then
\* returns the transport error.
C27_NoRetry ==
    [][/\ (~last.pending /\ last' # last) =>
             /\ callLog' = callLog \o MethodsOf(last'.issued)
             /\ Len(last'.issued) =
                   IF last'.op = "Dismiss" /\ last'.arg = 0 THEN 0 ELSE 1
       /\ (last.pending /\ last' # last) =>
             /\ callLog' = callLog
             /\ last'.issued = last.issued
             /\ ~last'.pending
             /\ last'.reply.err => last'.err = "transport"]_vars

\* GetServerCapabilities returned the transport error after its one call,
\* the second operation of the run, had failed
C27_Witness ==
    /\ last.op = "GetServerCapabilities" /\ ~last.pending
    /\ last.reply.err /\ last.err = "transport"
    /\ Len(last.issued) = 1
    /\ Len(callLog) = 2 /\ callLog[2] = callGetCapabilities


\* C28: a completed GetServerInfo has a nil error only if the reply was no
\* error and had exactly four values, all strings, which are the Name,
\* Vendor, Version and SpecVersion of the result in that order; after a
\* transport error it returns no ServerInfo and that error; after a reply
\* with a value missing, in excess or of another type, a decode error.
C28_ServerInfoDecoded ==
    (last.op = "GetServerInfo" /\ ~last.pending) =>
        LET body == last.reply.body
            four == Len(body) = 4 /\ \A i \in 1..4 : body[i].t = "string"
        IN /\ last.err = "nil" =>
                 /\ ~last.reply.err /\ four /\ last.hasVal
                 /\ last.val = [i \in 1..4 |-> body[i].s]
           /\ last.reply.err => (~last.hasVal /\ last.err = "transport")
           /\ (~last.reply.err /\ ~four) => last.err = "decode"
           /\ (~last.reply.err /\ four) => last.err = "nil"

\* GetServerInfo returned the four fields of the reply, in order
C28_Witness ==
    /\ last.op = "GetServerInfo" /\ ~last.pending
    /\ last.err = "nil" /\ last.hasVal
    /\ last.val = <<"dunst", "knopwob", "1.9", "1.2">>


\* C29: while a call of the handle is waiting for the bus's reply, a receive
\* loop that has not exited and has a frame waiting in the queue or in its
\* hands can take its next step (receive the frame, or run the switch).
C29_CallDoesNotBlockLoop ==
    (last.pending /\ handle /\ loopPc \notin {"returned", "panicked"}
                  /\ (signal # <<>> \/ loopPc = "switch"))
        => ENABLED (ReceiveSignal \/ DispatchSignal)

\* a Send entered before any frame was received is still waiting for the
\* reply that will carry id 3, and on-closed was already started for id 3
C29_Witness ==
    /\ last.op = "Send" /\ last.pending /\ last.at.pulled = 0
    /\ \E j \in 1..Len(invocations) :
          invocations[j].id = 3 /\ invocations[j].cb = "onClosed"


\* C30: under the policies Server and Never the expire_timeout Send puts on
\* the wire is what it would put for the same request with any other value
\* of the Timeout field.
C30_TimeoutOnlyUnderTimeout ==
    (last.op = "Send" /\ last.note.Expire \in {Server, Never}) =>
        \A d \in Durations :
            WireExpire([last.note EXCEPT !.Timeout = d]) =
                last.issued[1].wire.expire


\* the invocations whose handler has rendered its reason
Rendered == { j \in 1..Len(invocations) : invocations[j].st = "rendered" }

\* C31: every reason an on-closed handler rendered gave a name: one of four
\* names, different for different reasons, when the reason is 1, 2, 3 or 4,
\* and "Other" for 0 and for every reason above 4.
C31_CloseReasonRendering ==
    \A j \in Rendered :
        LET r == invocations[j].reason
            t == invocations[j].text
        IN /\ t \in {"Expired", "DismissedByUser", "ClosedByCall",
                      "Unknown", "Other"}
           /\ r \in 1..4 => t # "Other"
           /\ r \notin 1..4 => t = "Other"
           /\ \A k \in Rendered :
                 (r \in 1..4 /\ invocations[k].reason \in 1..4
                    /\ invocations[k].reason # r) => invocations[k].text # t

\* reason 0 was rendered as "Other" and reason 4 as "Unknown"
C31_Witness ==
    \E j \in Rendered, k \in Rendered :
        /\ invocations[j].reason = 0 /\ invocations[j].text = "Other"
        /\ invocations[k].reason = 4 /\ invocations[k].text = "Unknown"


\* C32: when Send puts the Timeout field's millisecond count on the wire
\* (the branch taken for expire > 0), the int32 on the wire is not negative
\* and is that millisecond count: the count has no part above 32 bits and
\* its two 16-bit limbs are those of the wire value.
C32_MillisecondsFitInt32 ==
    (last.op = "Send" /\ last.note.Expire > 0) =>
        LET ms == Milliseconds(last.note.Timeout)
            wire == last.issued[1].wire.expire
        IN /\ wire >= 0
           /\ ms.hi = 0
           /\ wire \div 65536 = ms.mid
           /\ wire % 65536 = ms.lo

====
